---- MODULE Spec2Model ----
(***************************************************************************)
(* Model of openproject-toggl-import: one run of main() fetches the Toggl  *)
(* time entries, filters and parses them, looks up the Toggl ids already   *)
(* recorded in OpenProject per work package, builds the time entry         *)
(* requests, asks for confirmation and uploads them one by one.            *)
(*                                                                         *)
(* Strings are sequences of one-character strings, so that formatting,     *)
(* regex matching and split_once are computed, not assumed; a character    *)
(* outside ASCII is the string "U+" and its code point.  Timestamps        *)
(* (start, startTime, stopTime, spentOn) are not modelled; `stop` is kept  *)
(* as an Option.                                                           *)
(***************************************************************************)
EXTENDS Integers, Sequences, FiniteSets, TLC

\* ------------------------------------------------------------------ bounds
\* Number of time entries the source returns.
MaxEntries == 2
\* Number of runs of the program against the same source and sink.
MaxRuns == 2

\* ----------------------------------------------------------------- strings
\* Option<T>: None, or Some(x) with the value in field val.
None == [some |-> FALSE]

Some(x) == [some |-> TRUE, val |-> x]

DigitChars == <<"0", "1", "2", "3", "4", "5", "6", "7", "8", "9">>

\* The decimal digits outside ASCII: general category Nd of Unicode 16.0.
UnicodeDigits ==
    { "U+0660", "U+0661", "U+0662", "U+0663", "U+0664", "U+0665", "U+0666", "U+0667",
      "U+0668", "U+0669", "U+06F0", "U+06F1", "U+06F2", "U+06F3", "U+06F4", "U+06F5",
      "U+06F6", "U+06F7", "U+06F8", "U+06F9", "U+07C0", "U+07C1", "U+07C2", "U+07C3",
      "U+07C4", "U+07C5", "U+07C6", "U+07C7", "U+07C8", "U+07C9", "U+0966", "U+0967",
      "U+0968", "U+0969", "U+096A", "U+096B", "U+096C", "U+096D", "U+096E", "U+096F",
      "U+09E6", "U+09E7", "U+09E8", "U+09E9", "U+09EA", "U+09EB", "U+09EC", "U+09ED",
      "U+09EE", "U+09EF", "U+0A66", "U+0A67", "U+0A68", "U+0A69", "U+0A6A", "U+0A6B",
      "U+0A6C", "U+0A6D", "U+0A6E", "U+0A6F", "U+0AE6", "U+0AE7", "U+0AE8", "U+0AE9",
      "U+0AEA", "U+0AEB", "U+0AEC", "U+0AED", "U+0AEE", "U+0AEF", "U+0B66", "U+0B67",
      "U+0B68", "U+0B69", "U+0B6A", "U+0B6B", "U+0B6C", "U+0B6D", "U+0B6E", "U+0B6F",
      "U+0BE6", "U+0BE7", "U+0BE8", "U+0BE9", "U+0BEA", "U+0BEB", "U+0BEC", "U+0BED",
      "U+0BEE", "U+0BEF", "U+0C66", "U+0C67", "U+0C68", "U+0C69", "U+0C6A", "U+0C6B",
      "U+0C6C", "U+0C6D", "U+0C6E", "U+0C6F", "U+0CE6", "U+0CE7", "U+0CE8", "U+0CE9",
      "U+0CEA", "U+0CEB", "U+0CEC", "U+0CED", "U+0CEE", "U+0CEF", "U+0D66", "U+0D67",
      "U+0D68", "U+0D69", "U+0D6A", "U+0D6B", "U+0D6C", "U+0D6D", "U+0D6E", "U+0D6F",
      "U+0DE6", "U+0DE7", "U+0DE8", "U+0DE9", "U+0DEA", "U+0DEB", "U+0DEC", "U+0DED",
      "U+0DEE", "U+0DEF", "U+0E50", "U+0E51", "U+0E52", "U+0E53", "U+0E54", "U+0E55",
      "U+0E56", "U+0E57", "U+0E58", "U+0E59", "U+0ED0", "U+0ED1", "U+0ED2", "U+0ED3",
      "U+0ED4", "U+0ED5", "U+0ED6", "U+0ED7", "U+0ED8", "U+0ED9", "U+0F20", "U+0F21",
      "U+0F22", "U+0F23", "U+0F24", "U+0F25", "U+0F26", "U+0F27", "U+0F28", "U+0F29",
      "U+1040", "U+1041", "U+1042", "U+1043", "U+1044", "U+1045", "U+1046", "U+1047",
      "U+1048", "U+1049", "U+1090", "U+1091", "U+1092", "U+1093", "U+1094", "U+1095",
      "U+1096", "U+1097", "U+1098", "U+1099", "U+17E0", "U+17E1", "U+17E2", "U+17E3",
      "U+17E4", "U+17E5", "U+17E6", "U+17E7", "U+17E8", "U+17E9", "U+1810", "U+1811",
      "U+1812", "U+1813", "U+1814", "U+1815", "U+1816", "U+1817", "U+1818", "U+1819",
      "U+1946", "U+1947", "U+1948", "U+1949", "U+194A", "U+194B", "U+194C", "U+194D",
      "U+194E", "U+194F", "U+19D0", "U+19D1", "U+19D2", "U+19D3", "U+19D4", "U+19D5",
      "U+19D6", "U+19D7", "U+19D8", "U+19D9", "U+1A80", "U+1A81", "U+1A82", "U+1A83",
      "U+1A84", "U+1A85", "U+1A86", "U+1A87", "U+1A88", "U+1A89", "U+1A90", "U+1A91",
      "U+1A92", "U+1A93", "U+1A94", "U+1A95", "U+1A96", "U+1A97", "U+1A98", "U+1A99",
      "U+1B50", "U+1B51", "U+1B52", "U+1B53", "U+1B54", "U+1B55", "U+1B56", "U+1B57",
      "U+1B58", "U+1B59", "U+1BB0", "U+1BB1", "U+1BB2", "U+1BB3", "U+1BB4", "U+1BB5",
      "U+1BB6", "U+1BB7", "U+1BB8", "U+1BB9", "U+1C40", "U+1C41", "U+1C42", "U+1C43",
      "U+1C44", "U+1C45", "U+1C46", "U+1C47", "U+1C48", "U+1C49", "U+1C50", "U+1C51",
      "U+1C52", "U+1C53", "U+1C54", "U+1C55", "U+1C56", "U+1C57", "U+1C58", "U+1C59",
      "U+A620", "U+A621", "U+A622", "U+A623", "U+A624", "U+A625", "U+A626", "U+A627",
      "U+A628", "U+A629", "U+A8D0", "U+A8D1", "U+A8D2", "U+A8D3", "U+A8D4", "U+A8D5",
      "U+A8D6", "U+A8D7", "U+A8D8", "U+A8D9", "U+A900", "U+A901", "U+A902", "U+A903",
      "U+A904", "U+A905", "U+A906", "U+A907", "U+A908", "U+A909", "U+A9D0", "U+A9D1",
      "U+A9D2", "U+A9D3", "U+A9D4", "U+A9D5", "U+A9D6", "U+A9D7", "U+A9D8", "U+A9D9",
      "U+A9F0", "U+A9F1", "U+A9F2", "U+A9F3", "U+A9F4", "U+A9F5", "U+A9F6", "U+A9F7",
      "U+A9F8", "U+A9F9", "U+AA50", "U+AA51", "U+AA52", "U+AA53", "U+AA54", "U+AA55",
      "U+AA56", "U+AA57", "U+AA58", "U+AA59", "U+ABF0", "U+ABF1", "U+ABF2", "U+ABF3",
      "U+ABF4", "U+ABF5", "U+ABF6", "U+ABF7", "U+ABF8", "U+ABF9", "U+FF10", "U+FF11",
      "U+FF12", "U+FF13", "U+FF14", "U+FF15", "U+FF16", "U+FF17", "U+FF18", "U+FF19",
      "U+104A0", "U+104A1", "U+104A2", "U+104A3", "U+104A4", "U+104A5", "U+104A6", "U+104A7",
      "U+104A8", "U+104A9", "U+10D30", "U+10D31", "U+10D32", "U+10D33", "U+10D34", "U+10D35",
      "U+10D36", "U+10D37", "U+10D38", "U+10D39", "U+10D40", "U+10D41", "U+10D42", "U+10D43",
      "U+10D44", "U+10D45", "U+10D46", "U+10D47", "U+10D48", "U+10D49", "U+11066", "U+11067",
      "U+11068", "U+11069", "U+1106A", "U+1106B", "U+1106C", "U+1106D", "U+1106E", "U+1106F",
      "U+110F0", "U+110F1", "U+110F2", "U+110F3", "U+110F4", "U+110F5", "U+110F6", "U+110F7",
      "U+110F8", "U+110F9", "U+11136", "U+11137", "U+11138", "U+11139", "U+1113A", "U+1113B",
      "U+1113C", "U+1113D", "U+1113E", "U+1113F", "U+111D0", "U+111D1", "U+111D2", "U+111D3",
      "U+111D4", "U+111D5", "U+111D6", "U+111D7", "U+111D8", "U+111D9", "U+112F0", "U+112F1",
      "U+112F2", "U+112F3", "U+112F4", "U+112F5", "U+112F6", "U+112F7", "U+112F8", "U+112F9",
      "U+11450", "U+11451", "U+11452", "U+11453", "U+11454", "U+11455", "U+11456", "U+11457",
      "U+11458", "U+11459", "U+114D0", "U+114D1", "U+114D2", "U+114D3", "U+114D4", "U+114D5",
      "U+114D6", "U+114D7", "U+114D8", "U+114D9", "U+11650", "U+11651", "U+11652", "U+11653",
      "U+11654", "U+11655", "U+11656", "U+11657", "U+11658", "U+11659", "U+116C0", "U+116C1",
      "U+116C2", "U+116C3", "U+116C4", "U+116C5", "U+116C6", "U+116C7", "U+116C8", "U+116C9",
      "U+116D0", "U+116D1", "U+116D2", "U+116D3", "U+116D4", "U+116D5", "U+116D6", "U+116D7",
      "U+116D8", "U+116D9", "U+116DA", "U+116DB", "U+116DC", "U+116DD", "U+116DE", "U+116DF",
      "U+116E0", "U+116E1", "U+116E2", "U+116E3", "U+11730", "U+11731", "U+11732", "U+11733",
      "U+11734", "U+11735", "U+11736", "U+11737", "U+11738", "U+11739", "U+118E0", "U+118E1",
      "U+118E2", "U+118E3", "U+118E4", "U+118E5", "U+118E6", "U+118E7", "U+118E8", "U+118E9",
      "U+11950", "U+11951", "U+11952", "U+11953", "U+11954", "U+11955", "U+11956", "U+11957",
      "U+11958", "U+11959", "U+11BF0", "U+11BF1", "U+11BF2", "U+11BF3", "U+11BF4", "U+11BF5",
      "U+11BF6", "U+11BF7", "U+11BF8", "U+11BF9", "U+11C50", "U+11C51", "U+11C52", "U+11C53",
      "U+11C54", "U+11C55", "U+11C56", "U+11C57", "U+11C58", "U+11C59", "U+11D50", "U+11D51",
      "U+11D52", "U+11D53", "U+11D54", "U+11D55", "U+11D56", "U+11D57", "U+11D58", "U+11D59",
      "U+11DA0", "U+11DA1", "U+11DA2", "U+11DA3", "U+11DA4", "U+11DA5", "U+11DA6", "U+11DA7",
      "U+11DA8", "U+11DA9", "U+11F50", "U+11F51", "U+11F52", "U+11F53", "U+11F54", "U+11F55",
      "U+11F56", "U+11F57", "U+11F58", "U+11F59", "U+16130", "U+16131", "U+16132", "U+16133",
      "U+16134", "U+16135", "U+16136", "U+16137", "U+16138", "U+16139", "U+16A60", "U+16A61",
      "U+16A62", "U+16A63", "U+16A64", "U+16A65", "U+16A66", "U+16A67", "U+16A68", "U+16A69",
      "U+16AC0", "U+16AC1", "U+16AC2", "U+16AC3", "U+16AC4", "U+16AC5", "U+16AC6", "U+16AC7",
      "U+16AC8", "U+16AC9", "U+16B50", "U+16B51", "U+16B52", "U+16B53", "U+16B54", "U+16B55",
      "U+16B56", "U+16B57", "U+16B58", "U+16B59", "U+16D70", "U+16D71", "U+16D72", "U+16D73",
      "U+16D74", "U+16D75", "U+16D76", "U+16D77", "U+16D78", "U+16D79", "U+1CCF0", "U+1CCF1",
      "U+1CCF2", "U+1CCF3", "U+1CCF4", "U+1CCF5", "U+1CCF6", "U+1CCF7", "U+1CCF8", "U+1CCF9",
      "U+1D7CE", "U+1D7CF", "U+1D7D0", "U+1D7D1", "U+1D7D2", "U+1D7D3", "U+1D7D4", "U+1D7D5",
      "U+1D7D6", "U+1D7D7", "U+1D7D8", "U+1D7D9", "U+1D7DA", "U+1D7DB", "U+1D7DC", "U+1D7DD",
      "U+1D7DE", "U+1D7DF", "U+1D7E0", "U+1D7E1", "U+1D7E2", "U+1D7E3", "U+1D7E4", "U+1D7E5",
      "U+1D7E6", "U+1D7E7", "U+1D7E8", "U+1D7E9", "U+1D7EA", "U+1D7EB", "U+1D7EC", "U+1D7ED",
      "U+1D7EE", "U+1D7EF", "U+1D7F0", "U+1D7F1", "U+1D7F2", "U+1D7F3", "U+1D7F4", "U+1D7F5",
      "U+1D7F6", "U+1D7F7", "U+1D7F8", "U+1D7F9", "U+1D7FA", "U+1D7FB", "U+1D7FC", "U+1D7FD",
      "U+1D7FE", "U+1D7FF", "U+1E140", "U+1E141", "U+1E142", "U+1E143", "U+1E144", "U+1E145",
      "U+1E146", "U+1E147", "U+1E148", "U+1E149", "U+1E2F0", "U+1E2F1", "U+1E2F2", "U+1E2F3",
      "U+1E2F4", "U+1E2F5", "U+1E2F6", "U+1E2F7", "U+1E2F8", "U+1E2F9", "U+1E4F0", "U+1E4F1",
      "U+1E4F2", "U+1E4F3", "U+1E4F4", "U+1E4F5", "U+1E4F6", "U+1E4F7", "U+1E4F8", "U+1E4F9",
      "U+1E5F1", "U+1E5F2", "U+1E5F3", "U+1E5F4", "U+1E5F5", "U+1E5F6", "U+1E5F7", "U+1E5F8",
      "U+1E5F9", "U+1E5FA", "U+1E950", "U+1E951", "U+1E952", "U+1E953", "U+1E954", "U+1E955",
      "U+1E956", "U+1E957", "U+1E958", "U+1E959", "U+1FBF0", "U+1FBF1", "U+1FBF2", "U+1FBF3",
      "U+1FBF4", "U+1FBF5", "U+1FBF6", "U+1FBF7", "U+1FBF8", "U+1FBF9" }

\* \d of the regex: Unicode-aware, any character of general category Nd.
IsDigit(c) == (\E i \in 1..Len(DigitChars) : DigitChars[i] = c) \/ c \in UnicodeDigits

RECURSIVE NatToString(_)
NatToString(n) ==
    IF n < 10 THEN <<DigitChars[n + 1]>>
    ELSE NatToString(n \div 10) \o <<DigitChars[(n % 10) + 1]>>

\* u64::to_string / Display of an i64 inside format!.
IntToString(n) == IF n < 0 THEN <<"-">> \o NatToString(-n) ELSE NatToString(n)

\* const COMMENT_SEPARATOR: &str = " - ";
COMMENT_SEPARATOR == <<" ", "-", " ">>

\* Does pat occur in s at position i (1-based)?
OccursAt(s, pat, i) ==
    /\ i + Len(pat) - 1 <= Len(s)
    /\ \A k \in 1..Len(pat) : s[i + k - 1] = pat[k]

\* str::split_once: None when the separator does not occur, otherwise the
\* parts before and after its first occurrence.
SplitOnce(s, pat) ==
    LET hits == {i \in 1..Len(s) : OccursAt(s, pat, i)}
    IN  IF hits = {} THEN None
        ELSE LET i == CHOOSE h \in hits : \A g \in hits : h <= g
             IN  Some(<<SubSeq(s, 1, i - 1),
                        SubSeq(s, i + Len(pat), Len(s))>>)

\* ------------------------------------------------------------- EntryParser
\* REGEX_STRING = r"(?i)^\[OP#(\d+)\](?: +(.*))*"
\* Length of the longest run of characters of s from position i on that
\* satisfy the class.
RECURSIVE DigitRun(_, _)
DigitRun(s, i) ==
    IF i <= Len(s) /\ IsDigit(s[i]) THEN 1 + DigitRun(s, i + 1) ELSE 0

RECURSIVE SpaceRun(_, _)
SpaceRun(s, i) ==
    IF i <= Len(s) /\ s[i] = " " THEN 1 + SpaceRun(s, i + 1) ELSE 0

\* `.` matches every character but the line feed.
RECURSIVE DotRun(_, _)
DotRun(s, i) ==
    IF i <= Len(s) /\ s[i] # "\n" THEN 1 + DotRun(s, i + 1) ELSE 0

\* re.captures(&description): None when the regex does not match, otherwise
\* capture 1 and capture 2 (None when the optional group did not take part).
\* The match is anchored at the start; \d+ is greedy and must be followed by
\* "]"; the group " +(.*)" takes the longest run of spaces and then the rest
\* of the line, after which a further repetition cannot start.
Captures(s) ==
    LET nd == DigitRun(s, 5)
        close == 5 + nd
        ns == SpaceRun(s, close + 1)
        from == close + 1 + ns
        nr == DotRun(s, from)
    IN  IF /\ Len(s) >= 6
           /\ s[1] = "["
           /\ s[2] \in {"O", "o"}
           /\ s[3] \in {"P", "p"}
           /\ s[4] = "#"
           /\ nd >= 1
           /\ close <= Len(s)
           /\ s[close] = "]"
        THEN Some([g1 |-> SubSeq(s, 5, close - 1),
                   g2 |-> IF ns >= 1 THEN Some(SubSeq(s, from, from + nr - 1))
                          ELSE None])
        ELSE None

\* The closure of main's filter_map: work package id and entry description,
\* or None when the description carries no tag.
ParseDescription(description) ==
    LET d == IF description.some THEN description.val ELSE <<>>
        caps == Captures(d)
    IN  IF ~caps.some THEN None
        ELSE Some([work_package_id |-> caps.val.g1,
                   description |-> IF caps.val.g2.some THEN caps.val.g2.val
                                   ELSE <<>>])

\* ------------------------------------------------------------------ source
\* toggl::TimeEntry { id, description, duration, stop } (start is not
\* modelled).  Ids are unique; the i-th entry of the source has TogglIds[i].
TogglIds == <<999, 1000, 1001, 1002>>

Str_OP5_a == <<"[", "O", "P", "#", "5", "]", " ", "a">>
Str_op5 == <<"[", "o", "p", "#", "5", "]">>
Str_OP6_b_c == <<"[", "O", "P", "#", "6", "]", " ", " ", "b", " ", "-", " ", "c">>
Str_a_OP5 == <<"a", " ", "[", "O", "P", "#", "5", "]">>

\* The shapes of source entries the model draws from: finished and tagged
\* (just long enough, or longer), too short, still running, untagged.
EntryShapes ==
    { [description |-> Some(Str_op5), duration |-> 60, stop |-> Some("t")],
      [description |-> Some(Str_OP6_b_c), duration |-> 1800, stop |-> Some("t")],
      [description |-> Some(Str_OP5_a), duration |-> 59, stop |-> Some("t")],
      [description |-> Some(Str_OP6_b_c), duration |-> 1800, stop |-> None],
      [description |-> Some(Str_a_OP5), duration |-> 1800, stop |-> Some("t")] }

\* What toggl::get_time_entries can return: MaxEntries entries with distinct ids.
Sources ==
    { [i \in 1..MaxEntries |->
          [id |-> TogglIds[i], description |-> f[i].description,
           duration |-> f[i].duration, stop |-> f[i].stop]] :
      f \in [1..MaxEntries -> EntryShapes] }

\* -------------------------------------------------------------------- sink
\* A time entry of the sink: the work package it is booked on, its
\* comment.raw as the lookup response shows it (absent, null or a string) and
\* whether this program posted it (FALSE: it was there before the first run).
RawAbsent == [t |-> "absent", s |-> <<>>]
RawNull == [t |-> "null", s |-> <<>>]
RawStr(s) == [t |-> "str", s |-> s]

WpHrefPrefix == <<"/api/v3/work_packages/">>

\* time_entries?pageSize=100&filters=...: one page is requested and read.
PageSize == 100

\* A work package that already holds n time entries of other Toggl entries.
FullWorkPackage(wp_id, n) ==
    [i \in 1..n |-> [wp |-> wp_id, raw |-> RawStr(<<"7", " ", "-", " ", "x">>),
                      posted |-> FALSE]]

\* What the sink may hold before the first run.
InitialSinks ==
    { <<>>,
      <<[wp |-> <<"5">>, raw |-> RawAbsent, posted |-> FALSE],
        [wp |-> <<"5">>, raw |-> RawStr(<<"9", "9", "9", " ", "-", " ", "a">>), posted |-> FALSE]>>,
      <<[wp |-> <<"6">>, raw |-> RawStr(<<"9", "9", "9", " ", "-", " ", "a">>), posted |-> FALSE]>>,
      <<[wp |-> <<"5">>, raw |-> RawStr(<<"m", "a", "n", "u", "a", "l">>), posted |-> FALSE],
        [wp |-> <<"6">>, raw |-> RawNull, posted |-> FALSE]>>,
      FullWorkPackage(<<"5">>, PageSize) }

\* ------------------------------------------------------------ Filter/Parse
\* Mutant of PassesGate: the stop time is not looked at.
PassesGate_DurationOnly(x) == x.duration >= 60

\* .filter(|x| x.stop.is_some() && x.duration >= 60)
PassesGate(x) == x.stop.some /\ x.duration >= 60

\* ExtendedTimeEntry of an entry whose description matches the regex.
Extend(entry) ==
    LET parsed == ParseDescription(entry.description)
    IN  [toggl_time_entry |-> entry,
         work_package_id |-> parsed.val.work_package_id,
         description |-> parsed.val.description]

\* The filter and the filter_map of main, in the order of the input.
ExtendedEntries(entries) ==
    LET kept == SelectSeq(entries,
                    LAMBDA x : PassesGate(x) /\ ParseDescription(x.description).some)
    IN  [i \in 1..Len(kept) |-> Extend(kept[i])]

\* wp_time_entries_map: the extended entries grouped by work package id, each
\* group in the order of the input.
GroupByWorkPackage(ext) ==
    [wp \in {ext[i].work_package_id : i \in 1..Len(ext)} |->
        SelectSeq(ext, LAMBDA e : e.work_package_id = wp)]

\* ------------------------------------------------------------------ lookup
\* A response to the GET of get_existing_toggl_ids: the request fails, the
\* status is an error, the body is not JSON, or the body is a JSON value
\* with or without "_embedded" and with or without an "elements" array in it.
ResponseOf(kind, has_embedded, elements) ==
    [kind |-> kind, has_embedded |-> has_embedded, elements |-> elements]

\* The elements of the one page the lookup reads: the first PageSize time
\* entries the sink holds for the work package (filter work_package = wp_id),
\* in the order the sink lists them, taken here as the order of creation.
SinkElements(snk, wp_id) ==
    LET mine == SelectSeq(snk, LAMBDA r : r.wp = wp_id)
        shown == IF Len(mine) <= PageSize THEN Len(mine) ELSE PageSize
    IN  [i \in 1..shown |-> mine[i].raw]

\* Every answer the lookup of wp_id can get from the sink in state snk.
Responses(snk, wp_id) ==
    { ResponseOf("get_failed", FALSE, None),
      ResponseOf("error_status", FALSE, None),
      ResponseOf("not_json", FALSE, None),
      ResponseOf("json", FALSE, None),
      ResponseOf("json", TRUE, None),
      ResponseOf("json", TRUE, Some(SinkElements(snk, wp_id))) }

\* The first string of the pair split_once(COMMENT_SEPARATOR) returns for an
\* element's comment.raw; "panic" stands for an unwrap() on None.
ElementId(raw) ==
    IF raw.t # "str" THEN [kind |-> "panic", id |-> <<>>]
    ELSE LET parts == SplitOnce(raw.s, COMMENT_SEPARATOR)
         IN  IF parts.some THEN [kind |-> "ok", id |-> parts.val[1]]
             ELSE [kind |-> "panic", id |-> <<>>]

\* get_existing_toggl_ids: Err for a failed request, an error status or a
\* body that is not JSON; otherwise the ids of the elements that have a
\* comment.raw (none when "_embedded"."elements" is no array), or a panic.
GetExistingTogglIds(resp) ==
    IF resp.kind # "json" THEN [kind |-> "err", ids |-> <<>>]
    ELSE IF ~(resp.has_embedded /\ resp.elements.some)
         THEN [kind |-> "ok", ids |-> <<>>]
    ELSE LET with == SelectSeq(resp.elements.val, LAMBDA raw : raw.t # "absent")
         IN  IF \E i \in 1..Len(with) : ElementId(with[i]).kind = "panic"
             THEN [kind |-> "panic", ids |-> <<>>]
             ELSE [kind |-> "ok", ids |-> [i \in 1..Len(with) |-> ElementId(with[i]).id]]

\* ------------------------------------------------------------------- build
Contains(vec, x) == \E i \in 1..Len(vec) : vec[i] = x

\* Mutant of TimeEntryRequestFrom: the duration is given in minutes.
TimeEntryRequestFrom_Minutes(entry) ==
    [work_package |-> WpHrefPrefix \o entry.work_package_id,
     hours |-> <<"P", "T">> \o IntToString(entry.toggl_time_entry.duration \div 60)
               \o <<"M">>,
     comment |-> IntToString(entry.toggl_time_entry.id) \o COMMENT_SEPARATOR
                 \o entry.description]

\* The TimeEntryRequest of an extended entry (links.workPackage.href, hours
\* and comment.raw; the activity link and the timestamps are not modelled).
TimeEntryRequestFrom(entry) ==
    [work_package |-> WpHrefPrefix \o entry.work_package_id,
     hours |-> <<"P", "T">> \o IntToString(entry.toggl_time_entry.duration) \o <<"S">>,
     comment |-> IntToString(entry.toggl_time_entry.id) \o COMMENT_SEPARATOR
                 \o entry.description]

\* Mutant of AlreadySubmitted: only the id found last is compared.
AlreadySubmitted_LastOnly(entry, existing) ==
    /\ existing # <<>>
    /\ existing[Len(existing)] = IntToString(entry.toggl_time_entry.id)

\* Skip entries that already exist based on Toggl ID.
AlreadySubmitted(entry, existing) ==
    Contains(existing, IntToString(entry.toggl_time_entry.id))

\* The requests of one group, in the order of the group.
GroupRequests(entries, existing) ==
    LET fresh == SelectSeq(entries, LAMBDA e : ~AlreadySubmitted(e, existing))
    IN  [i \in 1..Len(fresh) |-> TimeEntryRequestFrom(fresh[i])]

\* entries_to_submit when the HashMap is iterated in the given order of keys.
RECURSIVE EntriesToSubmit(_, _, _)
EntriesToSubmit(map, order, existing) ==
    IF order = <<>> THEN <<>>
    ELSE GroupRequests(map[Head(order)], existing)
         \o EntriesToSubmit(map, Tail(order), existing)

\* The orders in which a HashMap or HashSet with these keys can be iterated.
IterationOrders(keys) ==
    { f \in [1..Cardinality(keys) -> keys] :
        \A i, j \in 1..Cardinality(keys) : i # j => f[i] # f[j] }

\* ------------------------------------------------------------------ submit
\* What can happen to a POST: the sink creates the entry and answers 2xx; the
\* sink answers with a failure status and creates nothing; the request fails
\* before it reaches the sink; the sink creates the entry and reading the
\* response body fails.
UploadOutcomes == {"created", "rejected", "send_failed", "text_failed"}

\* TimeEntryRequest::upload: Err only when post() or res.text() fails; the
\* status of the response is not looked at.
Upload(outcome) == IF outcome \in {"send_failed", "text_failed"} THEN "Err" ELSE "Ok"

\* The sink after a POST with the given outcome.
SinkAfterPost(snk, request, outcome) ==
    IF outcome \in {"created", "text_failed"}
    THEN Append(snk, [wp |-> SubSeq(request.work_package, Len(WpHrefPrefix) + 1,
                                    Len(request.work_package)),
                      raw |-> RawStr(request.comment), posted |-> TRUE])
    ELSE snk

\* ------------------------------------------------------------------- state
VARIABLES
    time_entries,        \* what the source returns (the same in every run)
    sink,                \* the time entries the sink holds
    run,                 \* number of the current run
    pc,                  \* position of main: fetch, lookup, confirm, submit, done
    wp_time_entries_map, \* main's HashMap of extended entries by work package
    pending,             \* work package ids the lookup loop has not visited
    existing_toggl_ids,  \* main's Vec of ids found in the sink
    entries_to_submit,   \* main's Vec of requests
    sent,                \* outcomes of the POSTs of this run, in order
    answer,              \* what the confirmation prompt returned
    result,              \* how the run ended
    exit_code,           \* exit status of the process (-1 while it runs)
    existing_by_wp,      \* what each lookup of this run that returned Ok returned
    lookup_failed,       \* a lookup of this run returned Err or panicked
    shapeless,           \* a lookup of this run got JSON without the expected fields
    prev_all_created,    \* the previous run ended in success, every POST created
    sink_at_start,       \* number of entries the sink held when this run started
    p_in,                \* EntryParser check: the description
    p_out                \* EntryParser check: what parsing it returned

vars == <<time_entries, sink, run, pc, wp_time_entries_map, pending,
          existing_toggl_ids, entries_to_submit, sent, answer, result,
          exit_code, existing_by_wp, lookup_failed, shapeless, prev_all_created,
          sink_at_start, p_in, p_out>>

runLocal == <<wp_time_entries_map, pending, existing_toggl_ids,
              entries_to_submit, sent, answer, existing_by_wp, lookup_failed,
              shapeless>>

parserVars == <<p_in, p_out>>

\* The state of a process that has just started.
StartOfRun ==
    /\ pc = "fetch"
    /\ wp_time_entries_map = <<>>
    /\ pending = {}
    /\ existing_toggl_ids = <<>>
    /\ entries_to_submit = <<>>
    /\ sent = <<>>
    /\ answer = "none"
    /\ result = "running"
    /\ exit_code = -1
    /\ existing_by_wp = <<>>
    /\ lookup_failed = FALSE
    /\ shapeless = FALSE

Init ==
    /\ time_entries \in Sources
    /\ sink \in InitialSinks
    /\ run = 1
    /\ prev_all_created = FALSE
    /\ sink_at_start = Len(sink)
    /\ StartOfRun
    /\ p_in = None
    /\ p_out = [parsed |-> FALSE, out |-> None]

\* main ends: Ok(()) exits with 0, Err(_) with 1, exit(1) with 1, a panic with 101.
ExitCodeOf(how) ==
    CASE how \in {"nothing", "success"} -> 0
      [] how \in {"error", "declined"} -> 1
      [] how = "panic" -> 101

Ends(how) ==
    /\ pc' = "done"
    /\ result' = how
    /\ exit_code' = ExitCodeOf(how)

\* toggl::get_time_entries(2).await? fails.
FetchFailed ==
    /\ pc = "fetch"
    /\ Ends("error")
    /\ UNCHANGED <<time_entries, sink, run, runLocal, prev_all_created, sink_at_start, parserVars>>

\* The entries are fetched, filtered, parsed and grouped.
FetchAndGroup ==
    /\ pc = "fetch"
    /\ LET map == GroupByWorkPackage(ExtendedEntries(time_entries))
       IN  /\ wp_time_entries_map' = map
           /\ pending' = DOMAIN map
    /\ pc' = "lookup"
    /\ UNCHANGED <<time_entries, sink, run, existing_toggl_ids, entries_to_submit,
                   sent, answer, result, exit_code, existing_by_wp, lookup_failed,
                   shapeless, prev_all_created, sink_at_start, parserVars>>

\* A response that is JSON but lacks "_embedded"."elements" or has an element
\* without a comment.raw that is a string holding the separator.
UnexpectedShape(resp) ==
    /\ resp.kind = "json"
    /\ \/ ~(resp.has_embedded /\ resp.elements.some)
       \/ \E i \in 1..Len(resp.elements.val) :
              ElementId(resp.elements.val[i]).kind # "ok"

\* Mutant of AfterLookup: an Err is taken for an empty list.
AfterLookup_ErrIgnored(res) ==
    CASE res.kind \in {"ok", "err"} -> "continue"
      [] res.kind = "panic" -> "panic"

\* The `?` after get_existing_toggl_ids(wp_id).await: how main goes on.
AfterLookup(res) ==
    CASE res.kind = "ok" -> "continue"
      [] res.kind = "err" -> "error"
      [] res.kind = "panic" -> "panic"

\* One turn of the loop over unique_wp_ids.
Lookup(wp_id, resp) ==
    /\ pc = "lookup"
    /\ wp_id \in pending
    /\ LET res == GetExistingTogglIds(resp)
           next == AfterLookup(res)
       IN  /\ shapeless' = (shapeless \/ UnexpectedShape(resp))
           /\ lookup_failed' = (lookup_failed \/ res.kind # "ok")
           /\ existing_by_wp' =
                 IF res.kind = "ok"
                 THEN [w \in DOMAIN existing_by_wp \cup {wp_id} |->
                          IF w = wp_id THEN res.ids ELSE existing_by_wp[w]]
                 ELSE existing_by_wp
           /\ IF next = "continue"
              THEN /\ existing_toggl_ids' = existing_toggl_ids \o res.ids
                   /\ pending' = pending \ {wp_id}
                   /\ UNCHANGED <<pc, result, exit_code>>
              ELSE /\ Ends(next)
                   /\ UNCHANGED <<existing_toggl_ids, pending>>
    /\ UNCHANGED <<time_entries, sink, run, wp_time_entries_map, entries_to_submit,
                   sent, answer, prev_all_created, sink_at_start, parserVars>>

\* The loop that collects entries_to_submit, and the early return when there
\* is nothing to submit.
Build(order) ==
    /\ pc = "lookup"
    /\ pending = {}
    /\ LET requests == EntriesToSubmit(wp_time_entries_map, order, existing_toggl_ids)
       IN  /\ entries_to_submit' = requests
           /\ IF requests = <<>>
              THEN Ends("nothing")
              ELSE /\ pc' = "confirm"
                   /\ UNCHANGED <<result, exit_code>>
    /\ UNCHANGED <<time_entries, sink, run, wp_time_entries_map, pending,
                   existing_toggl_ids, sent, answer, existing_by_wp, lookup_failed,
                   shapeless, prev_all_created, sink_at_start, parserVars>>

\* What the prompt can return: yes, no, or an error (no terminal).
Answers == {"yes", "no", "io_error"}

\* Mutant of AfterConfirm: the negation is lost.
AfterConfirm_Inverted(ans) ==
    CASE ans = "no" -> "submit"
      [] ans = "yes" -> "declined"
      [] ans = "io_error" -> "panic"

\* if !Confirm::...interact().unwrap() { exit(1) }
AfterConfirm(ans) ==
    CASE ans = "yes" -> "submit"
      [] ans = "no" -> "declined"
      [] ans = "io_error" -> "panic"

Confirm(ans) ==
    /\ pc = "confirm"
    /\ answer' = ans
    /\ IF AfterConfirm(ans) = "submit"
       THEN /\ pc' = "submit"
            /\ UNCHANGED <<result, exit_code>>
       ELSE Ends(AfterConfirm(ans))
    /\ UNCHANGED <<time_entries, sink, run, wp_time_entries_map, pending,
                   existing_toggl_ids, entries_to_submit, sent, existing_by_wp,
                   lookup_failed, shapeless, prev_all_created, sink_at_start, parserVars>>

\* One turn of the loop over entries_to_submit: the next request is posted.
Submit(outcome) ==
    /\ pc = "submit"
    /\ Len(sent) < Len(entries_to_submit)
    /\ LET request == entries_to_submit[Len(sent) + 1]
       IN  sink' = SinkAfterPost(sink, request, outcome)
    /\ sent' = Append(sent, outcome)
    /\ IF Upload(outcome) = "Ok"
       THEN UNCHANGED <<pc, result, exit_code>>
       ELSE Ends("error")
    /\ UNCHANGED <<time_entries, run, wp_time_entries_map, pending,
                   existing_toggl_ids, entries_to_submit, answer, existing_by_wp,
                   lookup_failed, shapeless, prev_all_created, sink_at_start, parserVars>>

\* The loop is through: "All time entries submitted successfully!"
Finish ==
    /\ pc = "submit"
    /\ Len(sent) = Len(entries_to_submit)
    /\ Ends("success")
    /\ UNCHANGED <<time_entries, sink, run, runLocal, prev_all_created, sink_at_start, parserVars>>

\* The program is started again, against the same source and sink.
NewRun ==
    /\ pc = "done"
    /\ run < MaxRuns
    /\ run' = run + 1
    /\ prev_all_created' =
          (result = "success" /\ \A i \in 1..Len(sent) : sent[i] = "created")
    /\ pc' = "fetch"
    /\ wp_time_entries_map' = <<>>
    /\ pending' = {}
    /\ existing_toggl_ids' = <<>>
    /\ entries_to_submit' = <<>>
    /\ sent' = <<>>
    /\ answer' = "none"
    /\ result' = "running"
    /\ exit_code' = -1
    /\ existing_by_wp' = <<>>
    /\ lookup_failed' = FALSE
    /\ shapeless' = FALSE
    /\ sink_at_start' = Len(sink)
    /\ UNCHANGED <<time_entries, sink, parserVars>>

Next ==
    \/ FetchFailed
    \/ FetchAndGroup
    \/ \E wp_id \in pending :
          \E resp \in Responses(sink, wp_id) : Lookup(wp_id, resp)
    \/ \E order \in IterationOrders(DOMAIN wp_time_entries_map) : Build(order)
    \/ \E ans \in Answers : Confirm(ans)
    \/ \E outcome \in UploadOutcomes : Submit(outcome)
    \/ Finish
    \/ NewRun

Spec == Init /\ [][Next]_vars

\* ------------------------------------------------- EntryParser on its own
\* Descriptions a time entry can carry: something before the tag or not, a
\* tag that is well formed or not, a separator, trailing text.
ParseHeads == { <<>>, <<" ">>, <<"x">> }

ParseTags ==
    { <<"[", "O", "P", "#", "1", "2", "3", "]">>,
      <<"[", "o", "p", "#", "0", "7", "]">>,
      <<"[", "O", "p", "#", "5", "]">>,
      <<"[", "O", "P", "#", "1", "U+0662", "]">>,
      <<"[", "O", "P", "#", "U+FF15", "]">>,
      <<"[", "O", "P", "#", "]">>,
      <<"[", "O", "P", "1", "]">>,
      <<"[", "O", "P", "#", "1">>,
      <<"[", "O", "Q", "#", "1", "]">>,
      <<"O", "P", "#", "1", "]">>,
      <<>> }

ParseSeparators == { <<>>, <<" ">>, <<" ", " ">>, <<"\t">>, <<"\n">> }

ParseTails ==
    { <<>>, <<"M", "y", " ", "D">>, <<"a", " ">>, <<"a", "\n", "b">>,
      <<"-", " ", "a">> }

ParseInputs ==
    { Some(h \o t \o sep \o tail) :
        h \in ParseHeads, t \in ParseTags, sep \in ParseSeparators,
        tail \in ParseTails } \cup {None}

InitParse ==
    /\ p_in \in ParseInputs
    /\ p_out = [parsed |-> FALSE, out |-> None]
    /\ time_entries = <<>>
    /\ sink = <<>>
    /\ run = 1
    /\ prev_all_created = FALSE
    /\ sink_at_start = 0
    /\ StartOfRun

\* The description of an entry is parsed.
Parse ==
    /\ ~p_out.parsed
    /\ p_out' = [parsed |-> TRUE, out |-> ParseDescription(p_in)]
    /\ UNCHANGED <<time_entries, sink, run, pc, result, exit_code, runLocal,
                   prev_all_created, sink_at_start, p_in>>

NextParse == Parse

SpecParse == InitParse /\ [][NextParse]_vars

\* ================================================================== claims
\* The Toggl id a comment carries: the text before the first separator.
IdOfComment(comment) == ElementId(RawStr(comment)).id

\* The requests of this run, as the set of Toggl ids they carry.
RequestIds == { IdOfComment(entries_to_submit[i].comment) : i \in 1..Len(entries_to_submit) }

\* The sink entries this program created for a Toggl id, in any run.
PostsOf(id) ==
    { i \in 1..Len(sink) : sink[i].posted /\ IdOfComment(sink[i].raw.s) = IntToString(id) }

\* The sink entries created by the current run.
PostsOfThisRun == { i \in 1..Len(sink) : i > sink_at_start }

\* main is past the loop that builds entries_to_submit.
Built == pc \in {"confirm", "submit"} \/ result = "nothing" \/ answer # "none"

\* C1: across the runs, no source entry id is posted to the sink more than
\* once (stated as the claim has it; the code breaks it).
C1_NoDuplicatePost ==
    \A k \in 1..Len(time_entries) : Cardinality(PostsOf(time_entries[k].id)) <= 1

\* C2: after a run that submitted all of its pending entries successfully, the
\* next run against the same source has nothing to submit (stated as the
\* claim has it; the code breaks it).
C2_SecondRunEmpty == prev_all_created => entries_to_submit = <<>>

\* C3: a failed lookup ends the run with an error before anything is posted,
\* however many lookups succeeded before it; and whenever a request has been
\* posted, every distinct work package id of the run was looked up with success.
C3_FailFastLookup ==
    /\ lookup_failed =>
          /\ pc = "done"
          /\ result \in {"error", "panic"}
          /\ exit_code # 0
          /\ sent = <<>>
          /\ PostsOfThisRun = {}
    /\ sent # <<>> =>
          /\ ~lookup_failed
          /\ DOMAIN existing_by_wp = DOMAIN wp_time_entries_map

\* A lookup failed after another one of the same run had succeeded.
C3_Witness == lookup_failed /\ DOMAIN existing_by_wp # {}

\* C4: every submission that fails, by a transport failure or by a failure
\* response of the sink, is the last one of its run, and the run ends with an
\* error (stated as the claim has it; the code breaks it).
C4_FailedSubmitAborts ==
    \A i \in 1..Len(sent) :
        sent[i] # "created" =>
            /\ i = Len(sent)
            /\ pc = "done"
            /\ result = "error"

\* C5: when the confirmation is not an explicit yes, nothing is posted in
\* that run and the process exits with a non-zero status; requests are posted
\* only after a yes in the same run.
C5_DeclineSubmitsNothing ==
    /\ answer \in {"no", "io_error"} =>
          /\ sent = <<>>
          /\ PostsOfThisRun = {}
          /\ pc = "done"
          /\ exit_code \notin {-1, 0}
    /\ (sent # <<>> \/ PostsOfThisRun # {}) => answer = "yes"
    /\ pc = "submit" => answer = "yes"

\* The user said no to a prompt for at least one request.
C5_Witness == answer = "no" /\ entries_to_submit # <<>> /\ pc = "done"

\* C6: an entry without stop, or shorter than 60 seconds, is in no request of
\* any run and is never posted, whatever its description and the sink.
C6_GateKeepsOut ==
    \A k \in 1..Len(time_entries) :
        LET e == time_entries[k]
        IN  (~e.stop.some \/ e.duration < 60) =>
                /\ IntToString(e.id) \notin RequestIds
                /\ PostsOf(e.id) = {}

\* A run posted a request while a tagged entry of the source was still
\* running or too short.
C6_Witness ==
    /\ sent # <<>>
    /\ \E k \in 1..Len(time_entries) :
          /\ ~time_entries[k].stop.some \/ time_entries[k].duration < 60
          /\ ParseDescription(time_entries[k].description).some

\* C7, as the claim states parsing: a description that starts with
\* [OP#<digits>] (letters in either case) gives the digits and everything
\* after the tag and its separating whitespace; any other gives None.
Whitespace == {" ", "\t", "\n"}

RECURSIVE StripLeadingWhitespace(_)
StripLeadingWhitespace(s) ==
    IF s # <<>> /\ Head(s) \in Whitespace THEN StripLeadingWhitespace(Tail(s)) ELSE s

C7_ClaimedParse(description) ==
    LET d == IF description.some THEN description.val ELSE <<>>
        closes == { k \in 6..Len(d) :
                      /\ d[1] = "[" /\ d[2] \in {"O", "o"} /\ d[3] \in {"P", "p"}
                      /\ d[4] = "#" /\ d[k] = "]"
                      /\ \A j \in 5..(k - 1) : IsDigit(d[j]) }
    IN  IF closes = {} THEN None
        ELSE LET k == CHOOSE c \in closes : TRUE
             IN  Some([work_package_id |-> SubSeq(d, 5, k - 1),
                       description |-> StripLeadingWhitespace(SubSeq(d, k + 1, Len(d)))])

\* C7: parsing a description returns what the claim says (the code breaks it:
\* text that follows the tag without a space, or after a line feed, is dropped).
C7_ParseAsClaimed == p_out.parsed => p_out.out = C7_ClaimedParse(p_in)

\* The entries of the source that pass the gate, carry a tag and whose id the
\* predicate does not exclude.
EligibleEntries(Excluded(_)) ==
    { k \in 1..Len(time_entries) :
        /\ time_entries[k].stop.some
        /\ time_entries[k].duration >= 60
        /\ ParseDescription(time_entries[k].description).some
        /\ ~Excluded(IntToString(time_entries[k].id)) }

\* The request the claim describes for the k-th entry of the source.
ClaimedRequest(k) ==
    LET e == time_entries[k]
        parsed == ParseDescription(e.description).val
    IN  [work_package |-> <<"/api/v3/work_packages/">> \o parsed.work_package_id,
         hours |-> <<"P", "T">> \o IntToString(e.duration) \o <<"S">>,
         comment |-> IntToString(e.id) \o <<" ", "-", " ">> \o parsed.description]

\* entries_to_submit holds exactly one request for each of the entries.
OneRequestPerEntry(entries) ==
    /\ Len(entries_to_submit) = Cardinality(entries)
    /\ \A k \in entries :
          \E i \in 1..Len(entries_to_submit) : entries_to_submit[i] = ClaimedRequest(k)

\* Some sink entry carries the id, under whatever work package.
RecordedInSink(id) ==
    \E i \in 1..Len(sink) : sink[i].raw.t = "str" /\ IdOfComment(sink[i].raw.s) = id

\* The run's lookups returned the id.
FoundByLookups(id) == Contains(existing_toggl_ids, id)

\* Every work package of the sink fits on the one page a lookup reads.
WholePages ==
    \A i \in 1..Len(sink) :
        Len(SelectSeq(sink, LAMBDA r : r.wp = sink[i].wp)) <= PageSize

\* C8 as stated: the requests built correspond one to one to the entries that
\* pass the gate, carry a tag and are not recorded in the sink (checked while
\* the sink is still as the lookups saw it, in runs whose lookup responses
\* all had the expected fields and showed every entry of their work package).
C8_OneRequestPerUnrecordedEntry ==
    (pc = "confirm" /\ ~shapeless /\ WholePages) =>
        OneRequestPerEntry(EligibleEntries(RecordedInSink))

\* C8 as amended: the requests built correspond one to one to the entries that
\* pass the gate, carry a tag and whose id is not among the existing ids the
\* lookups of the run returned; the request of an entry targets its work
\* package and has hours PT<duration>S and comment "<id> - <residual>".
C8_OneRequestPerNewEntry ==
    Built => OneRequestPerEntry(EligibleEntries(FoundByLookups))

\* One request is built while another tagged entry is skipped as found.
C8_Witness ==
    /\ pc = "confirm"
    /\ Len(entries_to_submit) = 1
    /\ \E k \in 1..Len(time_entries) :
          /\ time_entries[k].stop.some /\ time_entries[k].duration >= 60
          /\ ParseDescription(time_entries[k].description).some
          /\ FoundByLookups(IntToString(time_entries[k].id))

\* The parsed entries of the run with their group: <<wp, position>>.
ParsedEntries ==
    { <<wp, j>> : wp \in DOMAIN wp_time_entries_map, j \in 1..MaxEntries } \cap
    { x \in (DOMAIN wp_time_entries_map) \X (1..MaxEntries) :
        x[2] <= Len(wp_time_entries_map[x[1]]) }

ParsedId(x) == IntToString(wp_time_entries_map[x[1]][x[2]].toggl_time_entry.id)

\* C9 as stated: an entry is retained iff its id is absent from the ids looked
\* up for its own work package.
C9_PerGroup ==
    Built => \A x \in ParsedEntries :
                (ParsedId(x) \in RequestIds) <=>
                    ~Contains(existing_by_wp[x[1]], ParsedId(x))

\* C9 as amended: an entry is retained iff its id is absent from the ids
\* looked up for every work package of the run.
C9_AcrossGroups ==
    Built => \A x \in ParsedEntries :
                (ParsedId(x) \in RequestIds) <=>
                    \A w \in DOMAIN existing_by_wp :
                        ~Contains(existing_by_wp[w], ParsedId(x))

\* An entry is dropped because its id was found under another work package
\* only.
C9_Witness ==
    /\ Built
    /\ \E x \in ParsedEntries :
          /\ ~Contains(existing_by_wp[x[1]], ParsedId(x))
          /\ \E w \in DOMAIN existing_by_wp : Contains(existing_by_wp[w], ParsedId(x))
          /\ ParsedId(x) \notin RequestIds

\* C10: a lookup response without the expected fields ends the run with an
\* error before anything is submitted (stated as the claim has it; the code
\* takes a response without "_embedded"."elements" for an empty list).
C10_ShapeIsFatal ==
    shapeless => /\ pc = "done"
                 /\ result \in {"error", "panic"}
                 /\ sent = <<>>

====
